---- MODULE Spec2Model ----
(***************************************************************************)
(* A model of the pdf2markdown conversion pipeline: PDFWorker's page       *)
(* selection and rasterisation, the two processor classes'                 *)
(* convert_pdf_to_markdown with their per-page retry loop, and the text    *)
(* utility remove_markdown_warp.                                           *)
(*                                                                         *)
(* Text is a sequence of character codes (Python str).  The body text of   *)
(* page p is abbreviated to the single code PageGlyph(p), a code outside   *)
(* ASCII, so that an assembled document shows which pages it holds.        *)
(***************************************************************************)
EXTENDS Integers, Sequences, FiniteSets, TLC

\* ------------------------------------------------------------------ bounds
\* Largest page count of the documents of Spec.
MaxPages == 3
\* Largest retry budget of a direct call of _convert_image_to_markdown.
MaxRetry == 3
\* Largest page count of the documents of SpecWorker.
MaxDocPages == 10
\* Page count of the one large document of SpecLarge.
LargeDoc == 10000
\* Longest free body text drawn for remove_markdown_warp.
MaxBody == 3
\* Most lines of a content drawn for _clean_ollama_output.
MaxLines == 5

\* ------------------------------------------------------------ Python text
Max(a, b) == IF a >= b THEN a ELSE b
Min(a, b) == IF a <= b THEN a ELSE b

\* The characters str.strip() removes: tab, LF, VT, FF, CR, space.
Whitespace == {9, 10, 11, 12, 13, 32}

\* "```"
Fence == <<96, 96, 96>>
\* "markdown", "python"
Markdown == <<109, 97, 114, 107, 100, 111, 119, 110>>
Python == <<112, 121, 116, 104, 111, 110>>
\* "\n", " ", "\n\n"
NL == <<10>>
SP == <<32>>
BlankLine == <<10, 10>>

RECURSIVE LStrip(_)
LStrip(t) ==
  IF t # <<>> /\ Head(t) \in Whitespace THEN LStrip(Tail(t)) ELSE t

RECURSIVE RStrip(_)
RStrip(t) ==
  IF t # <<>> /\ t[Len(t)] \in Whitespace
    THEN RStrip(SubSeq(t, 1, Len(t) - 1))
    ELSE t

\* str.strip()
Strip(t) == RStrip(LStrip(t))

\* str.startswith, str.endswith
StartsWith(t, p) == Len(t) >= Len(p) /\ SubSeq(t, 1, Len(p)) = p
EndsWith(t, s) == Len(t) >= Len(s) /\ SubSeq(t, Len(t) - Len(s) + 1, Len(t)) = s

\* text[n:] and text[:-n] (n > 0)
DropFirst(t, n) == SubSeq(t, Min(n, Len(t)) + 1, Len(t))
DropLast(t, n) == SubSeq(t, 1, Max(Len(t) - n, 0))

\* A variant of remove_markdown_warp that forgets the final strip.
remove_markdown_warp_no_final_strip(text, language) ==
  LET t0 == Strip(text)
      t1 == IF StartsWith(t0, Fence \o language)
              THEN DropFirst(t0, Len(Fence \o language)) ELSE t0
      t2 == IF EndsWith(t1, Fence) THEN DropLast(t1, Len(Fence)) ELSE t1
  IN  t2

\* A variant of remove_markdown_warp that cuts the opening fence without its tag.
remove_markdown_warp_untagged(text, language) ==
  LET t0 == Strip(text)
      t1 == IF StartsWith(t0, Fence \o language)
              THEN DropFirst(t0, Len(Fence)) ELSE t0
      t2 == IF EndsWith(t1, Fence) THEN DropLast(t1, Len(Fence)) ELSE t1
  IN  Strip(t2)

\* core/Util.py remove_markdown_warp
remove_markdown_warp(text, language) ==
  LET t0 == Strip(text)
      t1 == IF StartsWith(t0, Fence \o language)
              THEN DropFirst(t0, Len(Fence \o language)) ELSE t0
      t2 == IF EndsWith(t1, Fence) THEN DropLast(t1, Len(Fence)) ELSE t1
  IN  Strip(t2)

\* ---------------------------------------------------- _clean_ollama_output
\* str.lower() on the ASCII letters.
lower(t) == [k \in DOMAIN t |-> IF t[k] >= 65 /\ t[k] <= 90 THEN t[k] + 32 ELSE t[k]]

\* t.split(sep) for a non-empty sep: the pieces between the occurrences of sep,
\* found from the left without overlap.
RECURSIVE SplitFrom(_, _, _)
SplitFrom(t, sep, piece) ==
  IF t = <<>> THEN <<piece>>
  ELSE IF StartsWith(t, sep)
    THEN <<piece>> \o SplitFrom(DropFirst(t, Len(sep)), sep, <<>>)
  ELSE SplitFrom(Tail(t), sep, Append(piece, Head(t)))

Split(t, sep) == SplitFrom(t, sep, <<>>)

\* sep.join(parts)
RECURSIVE Join(_, _)
Join(parts, sep) ==
  IF parts = <<>> THEN <<>>
  ELSE IF Len(parts) = 1 THEN parts[1]
  ELSE parts[1] \o sep \o Join(Tail(parts), sep)

\* for line in lines: strip; an empty line is taken unless the line before it
\* is empty too; any other line is taken unless its lower case was seen.
RECURSIVE CleanedLines(_, _, _)
CleanedLines(lines, cleaned_lines, seen_lines) ==
  IF lines = <<>> THEN cleaned_lines
  ELSE LET line == Strip(Head(lines))
       IN  IF line = <<>>
             THEN IF cleaned_lines = <<>> \/ cleaned_lines[Len(cleaned_lines)] # <<>>
                    THEN CleanedLines(Tail(lines), Append(cleaned_lines, line),
                                      seen_lines)
                    ELSE CleanedLines(Tail(lines), cleaned_lines, seen_lines)
           ELSE IF lower(line) \notin seen_lines
             THEN CleanedLines(Tail(lines), Append(cleaned_lines, line),
                               seen_lines \cup {lower(line)})
           ELSE CleanedLines(Tail(lines), cleaned_lines, seen_lines)

\* for para in paragraphs: strip; taken unless empty or its lower case was seen.
RECURSIVE UniqueParagraphs(_, _, _)
UniqueParagraphs(paragraphs, unique_paragraphs, seen_paragraphs) ==
  IF paragraphs = <<>> THEN unique_paragraphs
  ELSE LET para == Strip(Head(paragraphs))
       IN  IF para # <<>> /\ lower(para) \notin seen_paragraphs
             THEN UniqueParagraphs(Tail(paragraphs), Append(unique_paragraphs, para),
                                   seen_paragraphs \cup {lower(para)})
             ELSE UniqueParagraphs(Tail(paragraphs), unique_paragraphs,
                                   seen_paragraphs)

\* PdfToMarkdownProcessor._clean_ollama_output
clean_ollama_output(content) ==
  IF content = <<>> THEN content
  ELSE LET result == Join(CleanedLines(Split(content, NL), <<>>, {}), NL)
           unique_paragraphs == UniqueParagraphs(Split(result, BlankLine), <<>>, {})
       IN  Strip(Join(unique_paragraphs, BlankLine))

\* ------------------------------------------------------------ image paths
\* str(n) for n >= 0: the decimal digits, most significant first.
RECURSIVE Digits(_)
Digits(n) ==
  IF n < 10 THEN <<48 + n>> ELSE Digits(n \div 10) \o <<48 + (n % 10)>>

\* Left-pad with "0" up to a least width.
RECURSIVE ZeroPad(_, _)
ZeroPad(d, w) == IF Len(d) >= w THEN d ELSE ZeroPad(<<48>> \o d, w)

\* f"page_{page_num + 1:04d}.{fmt}" with fmt = "jpg"; k = page_num + 1.  Every
\* path of one call has the same directory in front, which no comparison sees.
ImagePath(k) ==
  <<112, 97, 103, 101, 95>> \o ZeroPad(Digits(k), 4) \o <<46, 106, 112, 103>>

\* Python's order on str: the first differing character decides, a proper
\* prefix comes first.
RECURSIVE StrLess(_, _)
StrLess(a, b) ==
  IF b = <<>> THEN FALSE
  ELSE IF a = <<>> THEN TRUE
  ELSE IF Head(a) # Head(b) THEN Head(a) < Head(b)
  ELSE StrLess(Tail(a), Tail(b))

PathLess(j, k) == StrLess(ImagePath(j), ImagePath(k))

\* The image counts of the documents convert_pdf_to_markdown is called on.
ImageCounts == (0 .. MaxPages) \cup {LargeDoc}

\* sorted(img_paths) for img_paths = [page_0001, ..., page_n] as convert_to_images
\* returns them: the k-th entry is the page whose image is taken k-th.
SortedImages == [n \in ImageCounts |-> SortSeq([k \in 1 .. n |-> k], PathLess)]

\* ---------------------------------------------------------------- PDFWorker
\* reader.pages[p]: Python's index into a list of T pages, counted from the end
\* when negative.  -1 stands for IndexError.
PageAt(T, p) ==
  IF p >= 0 /\ p < T THEN p
  ELSE IF p < 0 /\ p >= -T THEN p + T
  ELSE -1

\* A variant of extract_pages that forgets to swap a reversed range.
extract_pages_no_swap(T, start_page, end_page) ==
  LET start == Max(0, start_page - 1)
      end == Min(T - 1, end_page - 1)
      picked == [k \in 1 .. Max(end - start + 1, 0) |-> PageAt(T, start + k - 1)]
  IN  [ok |-> \A k \in DOMAIN picked : picked[k] # -1, pages |-> picked]

\* PDFWorker.extract_pages up to the write: the 0-based pages of the original
\* that writer.add_page copies, in the order copied; ok is FALSE when
\* reader.pages[page_num] raises.
extract_pages(T, start_page, end_page) ==
  LET start0 == Max(0, start_page - 1)
      end0 == Min(T - 1, end_page - 1)
      start == IF start0 > end0 THEN end0 ELSE start0
      end == IF start0 > end0 THEN start0 ELSE end0
      picked == [k \in 1 .. (end - start + 1) |-> PageAt(T, start + k - 1)]
  IN  [ok |-> \A k \in DOMAIN picked : picked[k] # -1, pages |-> picked]

\* PDFWorker.__init__: "First validate page number range".
validated(T, start_page, end_page) ==
  [start |-> IF start_page < 1 \/ start_page > T THEN 1 ELSE start_page,
   end |-> IF end_page = 0 \/ end_page > T THEN T ELSE end_page]

\* A variant of PDFWorker that takes the path extract_pages returned even when
\* it is empty.
PDFWorker_no_fallback(T, start_page, end_page, written) ==
  LET s == validated(T, start_page, end_page).start
      e == validated(T, start_page, end_page).end
      x == extract_pages(T, s, e)
  IN  IF s = 1 /\ e = T
        THEN [kind |-> "pdf", input_path |-> "original", pages |-> <<>>,
              extraction |-> "not needed"]
      ELSE [kind |-> "pdf", input_path |-> "extracted",
            pages |-> IF x.ok /\ written THEN x.pages ELSE <<>>,
            extraction |-> IF x.ok /\ written THEN "done" ELSE "failed"]

\* PDFWorker.__init__ after the reader has opened a document of T pages.
\* written tells whether extract_pages manages to write the sub-document.
\* The worker's input_path is the copy it was given ("original") or the extracted
\* sub-document, whose pages are listed.
PDFWorker(T, start_page, end_page, written) ==
  LET s == validated(T, start_page, end_page).start
      e == validated(T, start_page, end_page).end
      x == extract_pages(T, s, e)
  IN  IF s = 1 /\ e = T
        THEN [kind |-> "pdf", input_path |-> "original", pages |-> <<>>,
              extraction |-> "not needed"]
      ELSE IF x.ok /\ written
        THEN [kind |-> "pdf", input_path |-> "extracted", pages |-> x.pages,
              extraction |-> "done"]
      ELSE [kind |-> "pdf", input_path |-> "original", pages |-> <<>>,
            extraction |-> "failed"]

\* ImageWorker.__init__
ImageWorker == [kind |-> "image", input_path |-> "original", pages |-> <<>>,
                extraction |-> "not needed"]

NoWorker == [kind |-> "none", input_path |-> "none", pages |-> <<>>,
             extraction |-> "not needed"]

\* A variant of DocLen that opens the original whatever was extracted.
DocLen_whole(worker, T) == T

\* len(doc) of the document convert_to_images opens.
DocLen(worker, T) ==
  IF worker.input_path = "extracted" THEN Len(worker.pages) ELSE T

\* The 0-based page of the original document that page k (from 1) of the
\* rasterised document shows.
SourcePage(worker, k) ==
  IF worker.input_path = "extracted" THEN worker.pages[k] ELSE k - 1

\* -------------------------------------------------------------------- state
VARIABLES
  processor,        \* the class whose method runs
  provider,         \* self.provider of a PdfToMarkdownProcessor
  entry,            \* the method called: convert_pdf_to_markdown or, directly,
                    \* _convert_image_to_markdown
  pc,               \* where the call stands
  file_exists,      \* os.path.exists(pdf_path)
  ext,              \* the extension of pdf_path, lower case
  total_pages,      \* len(reader.pages) of the input document
  start_page,       \* the arguments of the call
  end_page,
  retry_times,
  temperature,      \* the caller's temperature argument, in tenths
  legible,          \* the pages the model service answers for; on any other page
                    \* every request raises
  input_data,       \* main.py: the bytes read from standard input
  api_key,          \* main.py: OPENAI_API_KEY is set
  tmp_dir,          \* output_dir: "none", "present", "removed"
  tmp_files,        \* what output_dir holds: the kinds of file in it
  worker,           \* the FileWorker create_worker returned
  img_paths,        \* len(img_paths), the paths being ImagePath(1 .. img_paths);
                    \* -1 before convert_to_images has returned
  i,                \* the loop index of enumerate(sorted(img_paths), 1)
  attempt,          \* the loop index of range(retry_times)
  markdown_content,
  calls,            \* the model requests of the page last worked on: the page,
                    \* their number and the outcome of the last one
  page_result,      \* how the last call of _convert_image_to_markdown ended
  results,          \* the pages whose call returned, with the text returned
  total_calls,      \* the model requests of the whole call
  slept,            \* time.sleep ran after the last model request
  sent_temperature, \* the temperature of the last model request, in tenths
  pending,          \* the value or exception leaving the try block
  warned,           \* "Failed to clean up temporary directory" was logged
  outcome,          \* what the caller gets
  stdout,           \* main.py: what was printed
  text,             \* remove_markdown_warp: the argument,
  language,         \* the language tag,
  once,             \* the result, and
  twice,            \* the result of applying it to the result
  self              \* __init__: the attributes of the processor object

pipeline_vars ==
  <<processor, provider, entry, pc, file_exists, ext, total_pages, start_page,
    end_page, retry_times, legible, input_data, api_key, tmp_dir, tmp_files, worker, img_paths, i, attempt,
    markdown_content, calls, page_result, results, total_calls, slept,
    sent_temperature, temperature, pending, warned, outcome, stdout>>

util_vars == <<text, language, once, twice, self>>

vars == <<pipeline_vars, util_vars>>

Processors == {"PdfToMarkdownProcessor", "MarkPDFDownProcessor"}

\* provider: str = "openai", or "ollama"; a MarkPDFDownProcessor has none.
Providers(class) ==
  IF class = "PdfToMarkdownProcessor" THEN {"openai", "ollama"} ELSE {"none"}

\* retry_times: int = 3
DefaultRetryTimes == 3

\* Temperatures are counted in tenths: 3 is 0.3.
\* temperature: float = 0.3 of MarkPDFDownProcessor's methods
DefaultTemperature == 3

\* actual_temperature = 0.0 of PdfToMarkdownProcessor._convert_image_to_markdown
PinnedTemperature == 0

\* temperature=0.3 in convert_image_to_markdown of main.py
MainTemperature == 3

\* The temperatures a caller passes: MarkPDFDownProcessor takes the argument,
\* PdfToMarkdownProcessor has no such parameter.
Temperatures == {0, DefaultTemperature, 10}
CallerTemperatures(class) ==
  IF class = "MarkPDFDownProcessor" THEN Temperatures ELSE {PinnedTemperature}

\* Values of pending and outcome.
Nothing == [kind |-> "none", doc |-> <<>>, msg |-> ""]
Returned(doc) == [kind |-> "return", doc |-> doc, msg |-> ""]
ProcessingError(msg) == [kind |-> "ProcessingError", doc |-> <<>>, msg |-> msg]

\* An exception of a library or of Python itself.
Raised(kind) == [kind |-> kind, doc |-> <<>>, msg |-> ""]

\* A variant of Exit that always reports success.
Exit_zero(status, msg) == [kind |-> "exit(0)", doc |-> <<>>, msg |-> msg]

\* exit(status) after logger.error(msg), or after the run when msg is "".
Exit(status, msg) ==
  [kind |-> IF status = 0 THEN "exit(0)" ELSE "exit(1)", doc |-> <<>>, msg |-> msg]

\* except Exception as e: a ProcessingError is raised again, anything else is
\* wrapped in one.
Wrapped(e) ==
  IF e.kind = "ProcessingError" THEN e ELSE ProcessingError("Processing failed")

NoCalls == [page |-> 0, n |-> 0, last |-> "none"]
NoPageResult == [page |-> 0, kind |-> "none", text |-> <<>>]

\* The body text of page p, one code beyond the ASCII range.
PageGlyph(p) == 1000 + p

\* What the model may answer for the image of page p: the bare page text, the
\* page text in a ```markdown fence, or a blank.
Responses(p) ==
  { <<PageGlyph(p)>>,
    Fence \o Markdown \o NL \o <<PageGlyph(p)>> \o NL \o Fence,
    SP }

\* Nothing of main.py's environment is read.
NoInput ==
  /\ input_data = <<>>
  /\ api_key = FALSE

\* The processor object before __init__ has assigned anything.
NoSelf == [api_key |-> <<>>, provider |-> <<>>, llm_client |-> "none"]

UtilIdle ==
  /\ text = <<>>
  /\ language = <<>>
  /\ once = <<>>
  /\ twice = <<>>
  /\ self = NoSelf

PipelineIdle ==
  /\ pc = "idle"
  /\ processor = "none"
  /\ provider = "none"
  /\ entry = "none"
  /\ file_exists = FALSE
  /\ ext = ""
  /\ total_pages = 0
  /\ start_page = 1
  /\ end_page = 0
  /\ retry_times = DefaultRetryTimes
  /\ temperature = DefaultTemperature
  /\ legible = {}
  /\ NoInput
  /\ tmp_dir = "none"
  /\ tmp_files = {}
  /\ worker = NoWorker
  /\ img_paths = -1
  /\ i = 0
  /\ attempt = 0
  /\ markdown_content = <<>>
  /\ calls = NoCalls
  /\ page_result = NoPageResult
  /\ results = <<>>
  /\ total_calls = 0
  /\ slept = FALSE
  /\ sent_temperature = -1
  /\ pending = Nothing
  /\ warned = FALSE
  /\ outcome = Nothing
  /\ stdout = <<>>

\* The locals of a call before its first statement.
Fresh ==
  /\ tmp_dir = "none"
  /\ tmp_files = {}
  /\ worker = NoWorker
  /\ img_paths = -1
  /\ i = 0
  /\ attempt = 0
  /\ markdown_content = <<>>
  /\ calls = NoCalls
  /\ page_result = NoPageResult
  /\ results = <<>>
  /\ total_calls = 0
  /\ slept = FALSE
  /\ sent_temperature = -1
  /\ pending = Nothing
  /\ warned = FALSE
  /\ outcome = Nothing
  /\ stdout = <<>>

\* get_supported_formats()
get_supported_formats == {".pdf", ".jpg", ".jpeg", ".png", ".bmp"}

\* A call of convert_pdf_to_markdown on a document of at most MaxPages pages.
InitConvert ==
  /\ entry = "convert_pdf_to_markdown"
  /\ pc = "call"
  /\ processor \in Processors
  /\ provider \in Providers(processor)
  /\ retry_times = DefaultRetryTimes
  /\ temperature \in CallerTemperatures(processor)
  /\ \/ /\ file_exists = FALSE
        /\ ext = ".pdf"
        /\ total_pages = 1
        /\ start_page = 1
        /\ end_page = 0
     \/ /\ file_exists = TRUE
        /\ ext \in (get_supported_formats \ {".pdf"}) \cup {".txt"}
        /\ total_pages = 1
        /\ start_page = 1
        /\ end_page = 0
     \/ /\ file_exists = TRUE
        /\ ext = ".pdf"
        /\ total_pages \in 1 .. MaxPages
        /\ start_page \in 0 .. MaxPages + 1
        /\ end_page \in 0 .. MaxPages + 1
  /\ legible = 1 .. MaxPages
  /\ NoInput
  /\ Fresh

\* A direct call of _convert_image_to_markdown on one image.
InitImage ==
  /\ entry = "_convert_image_to_markdown"
  /\ pc = "attempt"
  /\ processor \in Processors
  /\ provider \in Providers(processor)
  /\ retry_times \in 0 .. MaxRetry
  /\ temperature \in CallerTemperatures(processor)
  /\ file_exists = TRUE
  /\ ext = ".jpg"
  /\ total_pages = 1
  /\ start_page = 1
  /\ end_page = 0
  /\ legible = {1}
  /\ NoInput
  /\ Fresh

Init ==
  /\ InitConvert \/ InitImage
  /\ UtilIdle

\* A caller (as main.py) that makes a worker for a PDF with create_worker and
\* has it rasterise: any integers for the page arguments.
InitWorker ==
  /\ entry = "create_worker"
  /\ pc = "create_worker"
  /\ processor = "none"
  /\ provider = "none"
  /\ retry_times = DefaultRetryTimes
  /\ temperature = DefaultTemperature
  /\ file_exists = TRUE
  /\ ext = ".pdf"
  /\ total_pages \in 1 .. MaxDocPages
  /\ start_page \in -1 .. MaxDocPages + 1
  /\ end_page \in -(MaxDocPages + 1) .. MaxDocPages + 1
  /\ legible = {}
  /\ NoInput
  /\ Fresh
  /\ UtilIdle

\* ------------------------------------------------- convert_pdf_to_markdown
inputs ==
  <<processor, provider, entry, file_exists, ext, total_pages, start_page,
    end_page, retry_times, temperature, legible, input_data, api_key>>
loop_vars ==
  <<i, attempt, markdown_content, calls, page_result, results, total_calls,
    slept, sent_temperature>>

\* if not os.path.exists(pdf_path): raise ProcessingError(...)
RaiseNotFound ==
  /\ pc = "call"
  /\ ~file_exists
  /\ outcome' = ProcessingError("PDF file not found")
  /\ pc' = "done"
  /\ UNCHANGED <<inputs, tmp_dir, tmp_files, worker, img_paths, loop_vars,
                 pending, warned, stdout, util_vars>>

\* output_dir = tempfile.mkdtemp(prefix="pdf2markdown_"), before the try block
Mkdtemp ==
  /\ pc = "call"
  /\ file_exists
  /\ tmp_dir' = "present"
  /\ pc' = "copy"
  /\ UNCHANGED <<inputs, tmp_files, worker, img_paths, loop_vars, pending,
                 warned, outcome, stdout, util_vars>>

\* mkdtemp finds no directory it can create one in and raises; no handler of
\* the method is in force yet.
MkdtempRaises ==
  /\ pc = "call"
  /\ file_exists
  /\ outcome' = Raised("OSError")
  /\ pc' = "done"
  /\ UNCHANGED <<inputs, tmp_dir, tmp_files, worker, img_paths, loop_vars,
                 pending, warned, stdout, util_vars>>

\* An exception e leaves a statement.  Inside the try block of
\* convert_pdf_to_markdown the handler wraps it and the finally clause runs;
\* a caller of create_worker or convert_to_images itself gets it as it is;
\* main.py catches the ValueError of create_worker and leaves with exit(1).
Raise(e) ==
  IF entry = "convert_pdf_to_markdown"
    THEN /\ pending' = Wrapped(e)
         /\ pc' = "finally"
         /\ UNCHANGED outcome
    ELSE /\ outcome' = IF entry = "main" /\ e.kind = "ValueError"
                         THEN Exit(1, "Unsupported file type") ELSE e
         /\ pc' = "done"
         /\ UNCHANGED pending

\* shutil.copy2(pdf_path, temp_pdf_path)
Copy ==
  /\ pc = "copy"
  /\ tmp_files' = tmp_files \cup {"input"}
  /\ pc' = "create_worker"
  /\ UNCHANGED <<inputs, tmp_dir, worker, img_paths, loop_vars, pending, warned,
                 outcome, stdout, util_vars>>

CopyRaises ==
  /\ pc = "copy"
  /\ Raise(Raised("OSError"))
  /\ UNCHANGED <<inputs, tmp_dir, tmp_files, worker, img_paths, loop_vars,
                 warned, stdout, util_vars>>

\* create_worker: ".pdf", then PyPDF2.PdfReader opens the copy and
\* PDFWorker.__init__ selects the pages.
CreatePDFWorker ==
  /\ pc = "create_worker"
  /\ ext = ".pdf"
  /\ \E written \in BOOLEAN :
       /\ worker' = PDFWorker(total_pages, start_page, end_page, written)
       /\ tmp_files' = IF worker'.input_path = "extracted"
                         THEN tmp_files \cup {"extracted"} ELSE tmp_files
  /\ pc' = "convert"
  /\ UNCHANGED <<inputs, tmp_dir, img_paths, loop_vars, pending, warned,
                 outcome, stdout, util_vars>>

\* create_worker: ".pdf", and PyPDF2.PdfReader raises on the file.
CreatePDFWorkerRaises ==
  /\ pc = "create_worker"
  /\ ext = ".pdf"
  /\ Raise(Raised("PdfReadError"))
  /\ UNCHANGED <<inputs, tmp_dir, tmp_files, worker, img_paths, loop_vars,
                 warned, stdout, util_vars>>

\* create_worker: an image extension
CreateImageWorker ==
  /\ pc = "create_worker"
  /\ ext \in {".jpg", ".jpeg", ".png", ".bmp"}
  /\ worker' = ImageWorker
  /\ pc' = "convert"
  /\ UNCHANGED <<inputs, tmp_dir, tmp_files, img_paths, loop_vars, pending,
                 warned, outcome, stdout, util_vars>>

\* create_worker: raise ValueError("Unsupported file type")
CreateWorkerRaises ==
  /\ pc = "create_worker"
  /\ ext \notin {".pdf", ".jpg", ".jpeg", ".png", ".bmp"}
  /\ Raise(Raised("ValueError"))
  /\ UNCHANGED <<inputs, tmp_dir, tmp_files, worker, img_paths, loop_vars,
                 warned, stdout, util_vars>>

\* A variant of convert_to_images that returns the pages saved before a failure.
convert_to_images_partial(n, failed_at) ==
  [paths |-> IF failed_at = 0 THEN n ELSE failed_at - 1,
   saved |-> IF failed_at = 0 THEN n ELSE failed_at - 1]

\* PDFWorker.convert_to_images(dpi=dpi).  failed_at = 0: every page is rendered
\* and saved; failed_at = k > 0: fitz.open (k = 1) or page k raises, after the
\* pages before it were saved, and the handler returns [].
convert_to_images(n, failed_at) ==
  [paths |-> IF failed_at = 0 THEN n ELSE 0,
   saved |-> IF failed_at = 0 THEN n ELSE failed_at - 1]

ConvertToImages ==
  /\ pc = "convert"
  /\ worker.kind = "pdf"
  /\ LET n == DocLen(worker, total_pages)
     IN  \E failed_at \in 0 .. Max(n, 1) :
           LET r == convert_to_images(n, failed_at)
           IN  /\ img_paths' = r.paths
               /\ tmp_files' = IF r.saved > 0
                                 THEN tmp_files \cup {"images"} ELSE tmp_files
  /\ pc' = CASE entry = "convert_pdf_to_markdown" -> "check_images"
             [] entry = "main" -> "start_loop"
             [] OTHER -> "done"
  /\ UNCHANGED <<inputs, tmp_dir, worker, loop_vars, pending, warned, outcome,
                 stdout, util_vars>>

\* ImageWorker.convert_to_images(self) takes no dpi: the call raises TypeError.
ConvertToImagesTypeError ==
  /\ pc = "convert"
  /\ entry = "convert_pdf_to_markdown"
  /\ worker.kind = "image"
  /\ Raise(Raised("TypeError"))
  /\ UNCHANGED <<inputs, tmp_dir, tmp_files, worker, img_paths, loop_vars,
                 warned, stdout, util_vars>>

\* A variant of NoPages that lets an empty list pass.
NoPages_unchecked(n) == FALSE

\* not img_paths
NoPages(n) == n = 0

\* if not img_paths: raise ProcessingError("Failed to convert PDF to images")
RaiseNoImages ==
  /\ pc = "check_images"
  /\ NoPages(img_paths)
  /\ Raise(ProcessingError("Failed to convert PDF to images"))
  /\ UNCHANGED <<inputs, tmp_dir, tmp_files, worker, img_paths, loop_vars,
                 warned, stdout, util_vars>>

\* markdown_content = ""; for i, img_path in enumerate(sorted(img_paths), 1):
StartLoop ==
  /\ pc = "check_images"
  /\ ~NoPages(img_paths)
  /\ markdown_content' = <<>>
  /\ i' = 1
  /\ attempt' = 0
  /\ pc' = IF 1 > img_paths THEN "assemble" ELSE "attempt"
  /\ UNCHANGED <<inputs, tmp_dir, tmp_files, worker, img_paths, calls,
                 page_result, results, total_calls, slept, sent_temperature,
                 pending, warned, outcome, stdout, util_vars>>

\* ----------------------------------------------- _convert_image_to_markdown
\* The page whose image the retry loop works on: sorted(img_paths)[i - 1].
CurrentPage ==
  IF entry \in {"convert_pdf_to_markdown", "main"}
    THEN SortedImages[img_paths][i] ELSE 1

\* A variant of AfterEmpty that takes an empty response for an answer.
AfterEmpty_accept(att, R) == "return"

\* An empty response: log, and go round the loop again; after the last round
\* the raise behind the loop is reached.
AfterEmpty(att, R) == IF att + 1 < R THEN "retry" ELSE "raise"

\* A variant of AfterRaise that never gives up.
AfterRaise_again(att, R) == "retry"

\* An exception of the request: log, and raise ProcessingError on the last
\* round.
AfterRaise(att, R) == IF att = R - 1 THEN "raise" ELSE "retry"

\* The request that is made now, counted.
Counted(last) ==
  [page |-> CurrentPage, n |-> IF attempt = 0 THEN 1 ELSE calls.n + 1,
   last |-> last]

\* markdown_content after the loop body has taken content for image i of n.
Appended(md, content, idx, n) ==
  IF content # <<>>
    THEN md \o content \o (IF idx < n THEN BlankLine ELSE <<>>)
    ELSE md

\* A variant of NextImage that goes back to the image before.
NextImage_back ==
  /\ i' = IF i > 1 THEN i - 1 ELSE i + 1
  /\ attempt' = 0
  /\ pc' = IF i = 1 /\ img_paths = 1 THEN "assemble" ELSE "attempt"

\* The loop of convert_pdf_to_markdown moves to the next image.
NextImage ==
  /\ i' = i + 1
  /\ attempt' = 0
  /\ pc' = IF i + 1 > img_paths THEN "assemble" ELSE "attempt"

\* _convert_image_to_markdown raises ProcessingError: the loop of
\* convert_pdf_to_markdown logs it and continues; a direct caller gets it.
PageRaises ==
  /\ page_result' = [page |-> CurrentPage, kind |-> "ProcessingError", text |-> <<>>]
  /\ IF entry = "convert_pdf_to_markdown"
       THEN /\ NextImage
            /\ UNCHANGED <<markdown_content, results, outcome>>
       ELSE /\ outcome' = ProcessingError("Failed to convert image")
            /\ pc' = "done"
            /\ UNCHANGED <<i, attempt, markdown_content, results>>

\* _convert_image_to_markdown returns content.
PageReturns(content) ==
  /\ page_result' = [page |-> CurrentPage, kind |-> "return", text |-> content]
  /\ results' = Append(results, [page |-> CurrentPage, text |-> content])
  /\ IF entry = "convert_pdf_to_markdown"
       THEN /\ NextImage
            /\ markdown_content' = Appended(markdown_content, content, i, img_paths)
            /\ UNCHANGED outcome
       ELSE /\ outcome' = Returned(content)
            /\ pc' = "done"
            /\ UNCHANGED <<i, attempt, markdown_content>>

\* temperature=... of the request: main.py and PdfToMarkdownProcessor send
\* their own value, MarkPDFDownProcessor sends the caller's.
request_temperature ==
  CASE entry = "main" -> MainTemperature
    [] processor = "PdfToMarkdownProcessor" -> PinnedTemperature
    [] OTHER -> temperature

\* The same round again with the next value of attempt.
Retry ==
  /\ attempt' = attempt + 1
  /\ UNCHANGED <<pc, i, markdown_content, page_result, results, outcome>>

\* for attempt in range(retry_times) with retry_times = 0: the loop has no
\* round, the raise behind it is reached.
NoAttempt ==
  /\ pc = "attempt"
  /\ retry_times = 0
  /\ calls' = [page |-> CurrentPage, n |-> 0, last |-> "none"]
  /\ PageRaises
  /\ UNCHANGED <<inputs, tmp_dir, tmp_files, worker, img_paths, total_calls,
                 slept, sent_temperature, pending, warned, stdout, util_vars>>

\* self.llm_client.completion(...) raises.
AttemptRaises ==
  /\ pc = "attempt"
  /\ attempt < retry_times
  /\ calls' = Counted("raise")
  /\ total_calls' = total_calls + 1
  /\ slept' = FALSE
  /\ sent_temperature' = request_temperature
  /\ IF AfterRaise(attempt, retry_times) = "raise" THEN PageRaises ELSE Retry
  /\ UNCHANGED <<inputs, tmp_dir, tmp_files, worker, img_paths, pending, warned,
                 stdout, util_vars>>

\* self.llm_client.completion(...) returns "" or None.
AttemptEmpty ==
  /\ pc = "attempt"
  /\ attempt < retry_times
  /\ CurrentPage \in legible
  /\ calls' = Counted("empty")
  /\ total_calls' = total_calls + 1
  /\ slept' = FALSE
  /\ sent_temperature' = request_temperature
  /\ CASE AfterEmpty(attempt, retry_times) = "raise" -> PageRaises
       [] AfterEmpty(attempt, retry_times) = "retry" -> Retry
       [] OTHER -> PageReturns(<<>>)
  /\ UNCHANGED <<inputs, tmp_dir, tmp_files, worker, img_paths, pending, warned,
                 stdout, util_vars>>

\* cleaned_response of a non-empty response: the fence is taken off, and for
\* Ollama the duplicates are.
cleaned_response(response) ==
  IF provider = "ollama"
    THEN clean_ollama_output(remove_markdown_warp(response, Markdown))
    ELSE remove_markdown_warp(response, Markdown)

\* self.llm_client.completion(...) returns text.
AttemptText ==
  /\ pc = "attempt"
  /\ attempt < retry_times
  /\ CurrentPage \in legible
  /\ calls' = Counted("text")
  /\ total_calls' = total_calls + 1
  /\ slept' = FALSE
  /\ sent_temperature' = request_temperature
  /\ \E response \in Responses(CurrentPage) :
       PageReturns(cleaned_response(response))
  /\ UNCHANGED <<inputs, tmp_dir, tmp_files, worker, img_paths, pending, warned,
                 stdout, util_vars>>

\* ------------------------------------------------- the end of the try block
\* A variant of Assembled that returns whatever was collected.
Assembled_unchecked(md) == Returned(Strip(md))

\* if not markdown_content.strip(): raise ProcessingError(...)
\* return markdown_content.strip()
Assembled(md) ==
  IF Strip(md) = <<>>
    THEN ProcessingError("No content was generated from the PDF")
    ELSE Returned(Strip(md))

Assemble ==
  /\ pc = "assemble"
  /\ pending' = LET a == Assembled(markdown_content)
                 IN  IF a.kind = "return" THEN a ELSE Wrapped(a)
  /\ pc' = "finally"
  /\ UNCHANGED <<inputs, tmp_dir, tmp_files, worker, img_paths, loop_vars,
                 warned, outcome, stdout, util_vars>>

\* A variant of Finally in which a failing rmtree is not caught.
Finally_uncaught(removed, leaving) ==
  [dir |-> IF removed THEN "removed" ELSE "present",
   warned |-> FALSE,
   outcome |-> IF removed THEN leaving ELSE Raised("OSError")]

\* finally: try: shutil.rmtree(output_dir) except Exception: logger.warning(...)
Finally(removed, leaving) ==
  [dir |-> IF removed THEN "removed" ELSE "present",
   warned |-> ~removed,
   outcome |-> leaving]

Cleanup ==
  /\ pc = "finally"
  /\ \E removed \in BOOLEAN :
       LET f == Finally(removed, pending)
       IN  /\ tmp_dir' = f.dir
           /\ tmp_files' = IF removed THEN {} ELSE tmp_files
           /\ warned' = f.warned
           /\ outcome' = f.outcome
  /\ pc' = "done"
  /\ UNCHANGED <<inputs, worker, img_paths, loop_vars, pending, stdout, util_vars>>

Next ==
  \/ RaiseNotFound
  \/ Mkdtemp
  \/ MkdtempRaises
  \/ Copy
  \/ CopyRaises
  \/ CreatePDFWorker
  \/ CreatePDFWorkerRaises
  \/ CreateImageWorker
  \/ CreateWorkerRaises
  \/ ConvertToImages
  \/ ConvertToImagesTypeError
  \/ RaiseNoImages
  \/ StartLoop
  \/ NoAttempt
  \/ AttemptRaises
  \/ AttemptEmpty
  \/ AttemptText
  \/ Assemble
  \/ Cleanup

Spec == Init /\ [][Next]_vars

\* Calls on whole documents in which every statement comes to its end: a file
\* operation and a model request return or raise.
InitFair ==
  /\ Init
  /\ start_page = 1
  /\ end_page = 0

SpecFair == InitFair /\ [][Next]_vars /\ WF_vars(Next)

\* As Spec, and a call of convert_pdf_to_markdown on a whole document of
\* LargeDoc pages, of which the model service can read the last two only.
InitLarge ==
  /\ entry = "convert_pdf_to_markdown"
  /\ pc = "call"
  /\ processor \in Processors
  /\ provider \in Providers(processor)
  /\ retry_times = DefaultRetryTimes
  /\ temperature = DefaultTemperature
  /\ file_exists = TRUE
  /\ ext = ".pdf"
  /\ total_pages = LargeDoc
  /\ start_page = 1
  /\ end_page = 0
  /\ legible = {LargeDoc - 1, LargeDoc}
  /\ NoInput
  /\ Fresh
  /\ UtilIdle

SpecLarge == (Init \/ InitLarge) /\ [][Next]_vars

NextWorker ==
  \/ CreatePDFWorker
  \/ CreatePDFWorkerRaises
  \/ ConvertToImages

SpecWorker == InitWorker /\ [][NextWorker]_vars

\* ------------------------------------------------------------------ main.py
\* The leading bytes main.py knows: "%PDF-", FF D8 FF DB, FF D8 FF E0,
\* 89 50 4E 47, 42 4D.
MagicPDF == <<37, 80, 68, 70, 45>>
MagicJPEG == <<255, 216, 255, 219>>
MagicJPG == <<255, 216, 255, 224>>
MagicPNG == <<137, 80, 78, 71>>
MagicBMP == <<66, 77>>

\* A variant of sniff that takes every JPEG start (FF D8 FF) for ".jpg".
sniff_any_jpeg(data) ==
  IF StartsWith(data, MagicPDF) THEN ".pdf"
  ELSE IF StartsWith(data, <<255, 216, 255>>) THEN ".jpg"
  ELSE IF StartsWith(data, MagicPNG) THEN ".png"
  ELSE IF StartsWith(data, MagicBMP) THEN ".bmp"
  ELSE "unsupported"

\* The chain of input_data.startswith(...) tests.
sniff(data) ==
  IF StartsWith(data, MagicPDF) THEN ".pdf"
  ELSE IF StartsWith(data, MagicJPEG) THEN ".jpeg"
  ELSE IF StartsWith(data, MagicJPG) THEN ".jpg"
  ELSE IF StartsWith(data, MagicPNG) THEN ".png"
  ELSE IF StartsWith(data, MagicBMP) THEN ".bmp"
  ELSE "unsupported"

\* What standard input may hold: nothing, or a known or unknown start (a
\* truncated "%PDF", a JPEG with an Exif marker, "GIF8", a lone "B") with or
\* without more bytes behind it.
Heads ==
  {MagicPDF, MagicJPEG, MagicJPG, MagicPNG, MagicBMP, <<37, 80, 68, 70>>,
   <<255, 216, 255, 225>>, <<71, 73, 70, 56>>, <<66>>}
InputData == {<<>>} \cup Heads \cup {h \o <<0>> : h \in Heads}

\* retry_times=3 of completion
MainRetryTimes == 3

\* python main.py [start_page] [end_page] < input
InitCLI ==
  /\ entry = "main"
  /\ pc = "read"
  /\ processor = "none"
  /\ provider = "none"
  /\ retry_times = MainRetryTimes
  /\ temperature = MainTemperature
  /\ file_exists = TRUE
  /\ ext = ""
  /\ total_pages \in 1 .. MaxPages
  /\ start_page = 1
  /\ end_page \in 0 .. MaxPages
  /\ legible = 1 .. MaxPages
  /\ input_data \in InputData
  /\ api_key \in BOOLEAN
  /\ Fresh
  /\ UtilIdle

\* if not input_data: logger.error(...); exit(1)
MainNoInput ==
  /\ pc = "read"
  /\ entry = "main"
  /\ input_data = <<>>
  /\ outcome' = Exit(1, "No input data received")
  /\ pc' = "done"
  /\ UNCHANGED <<inputs, tmp_dir, tmp_files, worker, img_paths, loop_vars,
                 pending, warned, stdout, util_vars>>

\* os.makedirs(output_dir, exist_ok=True)
MainMakeDir ==
  /\ pc = "read"
  /\ entry = "main"
  /\ input_data # <<>>
  /\ tmp_dir' = "present"
  /\ pc' = "sniff"
  /\ UNCHANGED <<inputs, tmp_files, worker, img_paths, loop_vars, pending,
                 warned, outcome, stdout, util_vars>>

\* The name of standard input is "<stdin>": the type is taken from the content,
\* and the input is written to output_dir under that extension.
MainSniff ==
  /\ pc = "sniff"
  /\ sniff(input_data) # "unsupported"
  /\ ext' = sniff(input_data)
  /\ tmp_files' = tmp_files \cup {"input"}
  /\ pc' = "create_worker"
  /\ UNCHANGED <<processor, provider, entry, file_exists, total_pages,
                 start_page, end_page, retry_times, temperature, legible,
                 input_data, api_key, tmp_dir, worker, img_paths, loop_vars,
                 pending, warned, outcome, stdout, util_vars>>

\* else: logger.error("Unsupported file type"); exit(1)
MainUnsupported ==
  /\ pc = "sniff"
  /\ sniff(input_data) = "unsupported"
  /\ outcome' = Exit(1, "Unsupported file type")
  /\ pc' = "done"
  /\ UNCHANGED <<inputs, tmp_dir, tmp_files, worker, img_paths, loop_vars,
                 pending, warned, stdout, util_vars>>

\* ImageWorker.convert_to_images(): [self.input_path]
MainConvertImage ==
  /\ pc = "convert"
  /\ entry = "main"
  /\ worker.kind = "image"
  /\ img_paths' = 1
  /\ pc' = "start_loop"
  /\ UNCHANGED <<inputs, tmp_dir, tmp_files, worker, loop_vars, pending, warned,
                 outcome, stdout, util_vars>>

\* markdown = ""; for img_path in sorted(img_paths):
MainStartLoop ==
  /\ pc = "start_loop"
  /\ markdown_content' = <<>>
  /\ i' = 1
  /\ attempt' = 0
  /\ pc' = IF 1 > img_paths THEN "print" ELSE "page"
  /\ UNCHANGED <<inputs, tmp_dir, tmp_files, worker, img_paths, calls,
                 page_result, results, total_calls, slept, sent_temperature,
                 pending, warned, outcome, stdout, util_vars>>

\* completion: if not api_key: logger.error(...); exit(1)
MainNoApiKey ==
  /\ pc = "page"
  /\ ~api_key
  /\ outcome' = Exit(1, "Please set the OPENAI_API_KEY environment variables")
  /\ pc' = "done"
  /\ UNCHANGED <<inputs, tmp_dir, tmp_files, worker, img_paths, loop_vars,
                 pending, warned, stdout, util_vars>>

\* A variant of MainAppended that puts the blank line between two texts only.
MainAppended_between(md, content) ==
  IF content = <<>> THEN md
  ELSE IF md = <<>> THEN content
  ELSE md \o BlankLine \o content

\* if content: markdown += content; markdown += "\n\n"
MainAppended(md, content) ==
  IF content # <<>> THEN md \o content \o BlankLine ELSE md

\* convert_image_to_markdown returned content: the loop body takes it and the
\* loop moves on.
MainContent(content) ==
  /\ page_result' = [page |-> CurrentPage, kind |-> "return", text |-> content]
  /\ results' = Append(results, [page |-> CurrentPage, text |-> content])
  /\ tmp_files' = IF content # <<>> THEN tmp_files \cup {"markdown"} ELSE tmp_files
  /\ markdown_content' = MainAppended(markdown_content, content)
  /\ i' = i + 1
  /\ attempt' = 0
  /\ pc' = IF i + 1 > img_paths THEN "print" ELSE "page"

\* completion: client.completion(...) raises; logger.error, time.sleep(0.5),
\* and after the last round return "".
MainRequestRaises ==
  /\ pc = "page"
  /\ api_key
  /\ attempt < retry_times
  /\ calls' = Counted("raise")
  /\ total_calls' = total_calls + 1
  /\ slept' = TRUE
  /\ sent_temperature' = request_temperature
  /\ IF attempt + 1 < retry_times
       THEN /\ attempt' = attempt + 1
            /\ UNCHANGED <<pc, i, markdown_content, page_result, results,
                           tmp_files>>
       ELSE MainContent(remove_markdown_warp(<<>>, Markdown))
  /\ UNCHANGED <<inputs, tmp_dir, worker, img_paths, pending, warned, outcome,
                 stdout, util_vars>>

\* completion: client.completion(...) returns a str, empty or not, which
\* completion returns at once.
MainRequestReturns ==
  /\ pc = "page"
  /\ api_key
  /\ attempt < retry_times
  /\ CurrentPage \in legible
  /\ total_calls' = total_calls + 1
  /\ slept' = FALSE
  /\ sent_temperature' = request_temperature
  /\ \E response \in Responses(CurrentPage) \cup {<<>>} :
       /\ calls' = Counted(IF response = <<>> THEN "empty" ELSE "text")
       /\ MainContent(remove_markdown_warp(response, Markdown))
  /\ UNCHANGED <<inputs, tmp_dir, worker, img_paths, pending, warned, outcome,
                 stdout, util_vars>>

\* completion: client.completion(...) returns None (a message without
\* content); remove_markdown_warp(None, "markdown") raises AttributeError.
MainRequestNone ==
  /\ pc = "page"
  /\ api_key
  /\ attempt < retry_times
  /\ CurrentPage \in legible
  /\ calls' = Counted("none")
  /\ total_calls' = total_calls + 1
  /\ slept' = FALSE
  /\ sent_temperature' = request_temperature
  /\ outcome' = Raised("AttributeError")
  /\ pc' = "done"
  /\ UNCHANGED <<inputs, tmp_dir, tmp_files, worker, img_paths, i, attempt,
                 markdown_content, page_result, results, pending, warned,
                 stdout, util_vars>>

\* print(markdown)
MainPrint ==
  /\ pc = "print"
  /\ stdout' = markdown_content \o NL
  /\ pc' = "rmtree"
  /\ UNCHANGED <<inputs, tmp_dir, tmp_files, worker, img_paths, loop_vars,
                 pending, warned, outcome, util_vars>>

\* shutil.rmtree(output_dir); exit(0)
MainRmtree ==
  /\ pc = "rmtree"
  /\ \E removed \in BOOLEAN :
       /\ tmp_dir' = IF removed THEN "removed" ELSE "present"
       /\ tmp_files' = IF removed THEN {} ELSE tmp_files
       /\ outcome' = IF removed THEN Exit(0, "") ELSE Raised("OSError")
  /\ pc' = "done"
  /\ UNCHANGED <<inputs, worker, img_paths, loop_vars, pending, warned, stdout,
                 util_vars>>

NextCLI ==
  \/ MainNoInput
  \/ MainMakeDir
  \/ MainSniff
  \/ MainUnsupported
  \/ CreatePDFWorker
  \/ CreatePDFWorkerRaises
  \/ CreateImageWorker
  \/ ConvertToImages
  \/ MainConvertImage
  \/ MainStartLoop
  \/ MainNoApiKey
  \/ MainRequestRaises
  \/ MainRequestReturns
  \/ MainRequestNone
  \/ MainPrint
  \/ MainRmtree

SpecCLI == InitCLI /\ [][NextCLI]_vars

\* Every orchestrator: the two processor classes and main.py.
SpecAll == (Init \/ InitCLI) /\ [][Next \/ NextCLI]_vars

\* ------------------------------------------------ calls of remove_markdown_warp
\* The texts remove_markdown_warp is called on: a body of at most MaxBody
\* characters out of backtick, newline, space and "a", with or without a fence
\* line before it (tagged with the language, untagged, or with another tag),
\* with or without a closing fence, and whitespace around the whole.
BodyChars == {96, 10, 32, 97}
Bodies == UNION {[1 .. n -> BodyChars] : n \in 0 .. MaxBody}
Pads == {<<>>, SP, BlankLine}
Languages == {Markdown, Python, <<>>}
Openers(L) ==
  {<<>>, Fence \o NL, Fence \o L \o NL, Fence \o L \o <<120>> \o NL,
   Fence \o Markdown \o NL, Fence \o Python \o NL}
Closers == {<<>>, Fence, NL \o Fence}

InitWarp ==
  /\ PipelineIdle
  /\ language \in Languages
  /\ \E lead \in Pads, open \in Openers(language), body \in Bodies,
        close \in Closers, trail \in Pads :
       text = lead \o open \o body \o close \o trail
  /\ once = <<>>
  /\ twice = <<>>
  /\ self = NoSelf

\* once = remove_markdown_warp(text, language)
CallWarp ==
  /\ pc = "idle"
  /\ once' = remove_markdown_warp(text, language)
  /\ pc' = "cleaned"
  /\ UNCHANGED <<inputs, tmp_dir, tmp_files, worker, img_paths, loop_vars,
                 pending, warned, outcome, stdout, text,
                 language, twice, self>>

\* twice = remove_markdown_warp(once, language)
CallWarpAgain ==
  /\ pc = "cleaned"
  /\ twice' = remove_markdown_warp(once, language)
  /\ pc' = "cleaned twice"
  /\ UNCHANGED <<inputs, tmp_dir, tmp_files, worker, img_paths, loop_vars,
                 pending, warned, outcome, stdout, text,
                 language, once, self>>

NextWarp ==
  \/ CallWarp
  \/ CallWarpAgain

SpecWarp == InitWarp /\ [][NextWarp]_vars

\* ------------------------------------------------ calls of _clean_ollama_output
\* The contents _clean_ollama_output is called on: at most MaxLines lines, each
\* one of ContentLines, joined by newlines.
ContentLines == {<<>>, <<97>>, <<65>>, <<98>>, <<32, 97>>, SP}
Contents ==
  {Join(lines, NL) : lines \in UNION {[1 .. n -> ContentLines] : n \in 0 .. MaxLines}}

InitClean ==
  /\ PipelineIdle
  /\ language = <<>>
  /\ text \in Contents
  /\ once = <<>>
  /\ twice = <<>>
  /\ self = NoSelf

\* once = self._clean_ollama_output(text)
CallClean ==
  /\ pc = "idle"
  /\ once' = clean_ollama_output(text)
  /\ pc' = "deduplicated"
  /\ UNCHANGED <<inputs, tmp_dir, tmp_files, worker, img_paths, loop_vars,
                 pending, warned, outcome, stdout, text,
                 language, twice, self>>

SpecClean == InitClean /\ [][CallClean]_vars

\* ----------------------------------------------------------------- __init__
\* The provider names as text: "openai", "ollama".
OpenAI == <<111, 112, 101, 110, 97, 105>>
Ollama == <<111, 108, 108, 97, 109, 97>>

\* The provider arguments of PdfToMarkdownProcessor(...): "openai", "OpenAI",
\* "ollama", "OLLAMA" and "azure"; MarkPDFDownProcessor has no such parameter.
ProviderArgs(class) ==
  IF class = "PdfToMarkdownProcessor"
    THEN {OpenAI, <<79, 112, 101, 110, 65, 73>>, Ollama,
          <<79, 76, 76, 65, 77, 65>>, <<97, 122, 117, 114, 101>>}
    ELSE {<<>>}

\* The api_key arguments: "", and keys of blanks and letters; "ollama".
KeyChars == {32, 107}
Keys ==
  {<<>>, Ollama} \cup {<<a>> : a \in KeyChars}
                 \cup {<<a, b>> : a \in KeyChars, b \in KeyChars}

\* def __init__(self, base_url, api_key, model) of LLMClient.
LLMClientParameters == {"base_url", "api_key", "model"}

\* The keyword arguments of the LLMClient(...) call in each __init__.
ClientKeywords(class) ==
  IF class = "PdfToMarkdownProcessor"
    THEN {"base_url", "api_key", "model", "provider"}
    ELSE {"base_url", "api_key", "model"}

\* PdfToMarkdownProcessor(api_key, provider=...) or MarkPDFDownProcessor(api_key).
InitConstruct ==
  /\ entry = "__init__"
  /\ pc = "validate"
  /\ processor \in Processors
  /\ provider \in ProviderArgs(processor)
  /\ api_key \in Keys
  /\ input_data = <<>>
  /\ file_exists = FALSE
  /\ ext = ""
  /\ total_pages = 0
  /\ start_page = 1
  /\ end_page = 0
  /\ retry_times = DefaultRetryTimes
  /\ temperature = DefaultTemperature
  /\ legible = {}
  /\ Fresh
  /\ UtilIdle

\* self.api_key = api_key; self.provider = provider.lower(); and for Ollama
\* without a key, self.api_key = "ollama".
Assigned ==
  LET p == IF processor = "PdfToMarkdownProcessor" THEN lower(provider)
           ELSE <<>>
  IN  [api_key |-> IF p = Ollama /\ api_key = <<>> THEN Ollama ELSE api_key,
       provider |-> p,
       llm_client |-> "none"]

\* if self.provider == "openai" and not api_key (PdfToMarkdownProcessor);
\* if not api_key (MarkPDFDownProcessor).
KeyRequired ==
  IF processor = "PdfToMarkdownProcessor"
    THEN lower(provider) = OpenAI /\ api_key = <<>>
    ELSE api_key = <<>>

ConstructUnchanged ==
  UNCHANGED <<inputs, tmp_dir, tmp_files, worker, img_paths, loop_vars,
              pending, warned, stdout, text, language, once, twice>>

\* raise ProcessingError("OpenAI API key is required")
ConstructKeyRequired ==
  /\ pc = "validate"
  /\ KeyRequired
  /\ self' = [Assigned EXCEPT !.api_key = api_key]
  /\ outcome' = ProcessingError("OpenAI API key is required")
  /\ pc' = "done"
  /\ ConstructUnchanged

\* The key is accepted, or replaced by "ollama".
ConstructValidated ==
  /\ pc = "validate"
  /\ ~KeyRequired
  /\ self' = Assigned
  /\ pc' = IF Assigned.provider = Ollama THEN "vision" ELSE "client"
  /\ UNCHANGED outcome
  /\ ConstructUnchanged

\* self._validate_ollama_vision_support(): a log line.
ConstructVision ==
  /\ pc = "vision"
  /\ pc' = "client"
  /\ UNCHANGED <<self, outcome>>
  /\ ConstructUnchanged

\* LLMClient(...) with a keyword __init__ does not have: TypeError, caught by
\* except Exception and raised as ProcessingError.
ConstructTypeError ==
  /\ pc = "client"
  /\ ~(ClientKeywords(processor) \subseteq LLMClientParameters)
  /\ outcome' = ProcessingError("Failed to initialize LLM client: unexpected keyword argument")
  /\ pc' = "done"
  /\ UNCHANGED self
  /\ ConstructUnchanged

\* LLMClient(...) returns the client.
ConstructClient ==
  /\ pc = "client"
  /\ ClientKeywords(processor) \subseteq LLMClientParameters
  /\ self' = [self EXCEPT !.llm_client = "created"]
  /\ outcome' = Returned(<<>>)
  /\ pc' = "done"
  /\ ConstructUnchanged

\* LLMClient(...): openai.OpenAI(...) raises.
ConstructClientRaises ==
  /\ pc = "client"
  /\ ClientKeywords(processor) \subseteq LLMClientParameters
  /\ outcome' = ProcessingError("Failed to initialize LLM client: openai")
  /\ pc' = "done"
  /\ UNCHANGED self
  /\ ConstructUnchanged

NextConstruct ==
  \/ ConstructKeyRequired
  \/ ConstructValidated
  \/ ConstructVision
  \/ ConstructTypeError
  \/ ConstructClient
  \/ ConstructClientRaises

SpecConstruct == InitConstruct /\ [][NextConstruct]_vars

\* =================================================================== claims
ConvertCall == entry = "convert_pdf_to_markdown"
ConvertDone == ConvertCall /\ pc = "done"

\* ----------------------------------------------------------------------- C1
\* The reference of the page selector: a start outside [1, T] becomes 1, an end
\* of 0 or beyond T becomes T, and the two are swapped when start > end.
normalize(start, end, T) ==
  LET s == IF start < 1 \/ start > T THEN 1 ELSE start
      e == IF end = 0 \/ end > T THEN T ELSE end
  IN  [start |-> Min(s, e), end |-> Max(s, e)]

\* The 1-based pages of the original that the worker's document holds, in its
\* order.
SelectedPages ==
  [k \in 1 .. DocLen(worker, total_pages) |-> SourcePage(worker, k) + 1]

\* C1: for every page count T >= 1, every integer start and every end >= 0, the
\* pages PDFWorker selects (unless writing the sub-document fails) are exactly
\* normalize(start, end, T).start .. normalize(start, end, T).end in ascending
\* order, with 1 <= start <= end <= T, and reader.pages[...] never raises.
C1_SelectsNormalizedRange ==
  (worker.kind = "pdf" /\ end_page >= 0) =>
    LET r == normalize(start_page, end_page, total_pages)
        v == validated(total_pages, start_page, end_page)
    IN  /\ 1 <= r.start /\ r.start <= r.end /\ r.end <= total_pages
        /\ extract_pages(total_pages, v.start, v.end).ok
        /\ worker.extraction # "failed" =>
             SelectedPages = [k \in 1 .. (r.end - r.start + 1) |-> r.start + k - 1]

\* A reversed range inside the document was asked for and extracted.
C1_Witness ==
  /\ worker.extraction = "done"
  /\ start_page > end_page
  /\ end_page >= 1
  /\ start_page <= total_pages
  /\ SelectedPages = [k \in 1 .. (start_page - end_page + 1) |-> end_page + k - 1]

\* ----------------------------------------------------------------------- C2
\* C2: convert_pdf_to_markdown ends in one of two ways: it returns a non-empty
\* document or it raises ProcessingError; no other exception leaves it.
C2_ReturnsOrProcessingError ==
  ConvertDone =>
    \/ outcome.kind = "return" /\ outcome.doc # <<>>
    \/ outcome.kind = "ProcessingError"

\* ----------------------------------------------------------------------- C3
\* The pages whose body text a document holds, in the order it holds them.
RECURSIVE PagesOf(_)
PagesOf(doc) ==
  IF doc = <<>> THEN <<>>
  ELSE IF Head(doc) >= 1000 THEN <<Head(doc) - 1000>> \o PagesOf(Tail(doc))
  ELSE PagesOf(Tail(doc))

\* The pages whose transcription returned text that is not empty.
SuccessfulPages ==
  {results[k].page : k \in {j \in DOMAIN results : results[j].text # <<>>}}

Ascending(seq) == \A k \in 1 .. Len(seq) - 1 : seq[k] < seq[k + 1]

\* C3: when at least one page is transcribed to text that is not empty, the
\* call returns, and the document holds the text of every such page once, in
\* ascending page order, and of no other page.
C3_PartialSuccessInPageOrder ==
  (ConvertDone /\ SuccessfulPages # {}) =>
    /\ outcome.kind = "return"
    /\ LET held == PagesOf(outcome.doc)
       IN  /\ {held[k] : k \in DOMAIN held} = SuccessfulPages
           /\ Len(held) = Cardinality(SuccessfulPages)
           /\ Ascending(held)

\* ----------------------------------------------------------------------- C4
\* C4: when the loop has gone over every image and no page gave text, the try
\* block is left by ProcessingError("No content was generated from the PDF"),
\* and that is what the caller gets; nothing is returned.
C4_NoContentRaises ==
  (ConvertCall /\ pc \in {"finally", "done"} /\ img_paths > 0
     /\ i = img_paths + 1 /\ SuccessfulPages = {}) =>
    /\ pending = ProcessingError("No content was generated from the PDF")
    /\ pc = "done" => outcome = pending

\* Two pages or more, some answered by a blank, none by text.
C4_Witness ==
  /\ ConvertDone
  /\ img_paths >= 2
  /\ i = img_paths + 1
  /\ results # <<>>
  /\ SuccessfulPages = {}
  /\ outcome.kind = "ProcessingError"

\* ----------------------------------------------------------------------- C5
\* C5: when convert_to_images returns no path, the next statement raises
\* ProcessingError("Failed to convert PDF to images"): the loop is never
\* entered, no request goes to the model, and the caller gets that error.
C5_NoPagesRaisesAtOnce ==
  (ConvertCall /\ img_paths = 0) =>
    /\ pc \in {"check_images", "finally", "done"}
    /\ total_calls = 0
    /\ page_result = NoPageResult
    /\ pc \in {"finally", "done"} =>
         pending = ProcessingError("Failed to convert PDF to images")
    /\ pc = "done" => outcome = pending

\* Rasterisation failed after some images were written, and the call is over.
C5_Witness ==
  /\ ConvertDone
  /\ img_paths = 0
  /\ "images" \in tmp_files
  /\ outcome.kind = "ProcessingError"

\* ----------------------------------------------------------------------- C6
\* C6: the image taken i-th by the loop over sorted(img_paths) is the image of
\* page i: pages are transcribed, and their texts appended, in ascending page
\* number, whatever the number of pages.
C6_AscendingPageOrder ==
  (ConvertCall /\ pc = "attempt") => CurrentPage = i

\* ----------------------------------------------------------------------- C7
\* What remove_markdown_warp makes of the answers the model may give for page p.
Sanitized(p) == {remove_markdown_warp(r, Markdown) : r \in Responses(p)}

\* C7: a page gets at most retry_times requests; after a request that raised
\* or came back empty, with rounds left, the same page is tried again; the call
\* returns only on a response that is not empty, with its sanitized text; it
\* raises ProcessingError only after retry_times requests, all failed.
C7_BoundedRetry ==
  /\ calls.n <= retry_times
  /\ (calls.last \in {"raise", "empty"} /\ calls.n < retry_times) =>
       /\ pc = "attempt"
       /\ CurrentPage = calls.page
       /\ attempt = calls.n
  /\ (page_result.kind = "return" /\ page_result.page = calls.page) =>
       /\ calls.last = "text"
       /\ page_result.text \in Sanitized(calls.page)
  /\ (page_result.kind = "ProcessingError" /\ page_result.page = calls.page) =>
       /\ calls.n = retry_times
       /\ calls.last # "text"

\* The third request for a page, after two failures, is answered with text.
C7_Witness ==
  /\ retry_times = DefaultRetryTimes
  /\ calls.n = DefaultRetryTimes
  /\ calls.last = "text"
  /\ page_result.page = calls.page
  /\ page_result.kind = "return"
  /\ page_result.text # <<>>

\* ----------------------------------------------------------------------- C8
\* C8: once the temporary directory exists, the call ends only through the
\* finally clause: the directory and all it holds are gone, or the failure to
\* remove it was logged; and the caller gets exactly what left the try block.
C8_TempDirReleased ==
  (ConvertDone /\ tmp_dir # "none") =>
    /\ (tmp_dir = "removed" /\ tmp_files = {}) \/ warned
    /\ pending # Nothing
    /\ outcome = pending

\* rmtree failed after a successful conversion, and the document is returned.
C8_Witness ==
  /\ ConvertDone
  /\ tmp_dir = "present"
  /\ warned
  /\ outcome.kind = "return"
  /\ {"input", "images"} \subseteq tmp_files

\* ----------------------------------------------------------------------- C9
\* C9: when text is the body B between an opening fence line ```language and
\* a closing ```, with whitespace around the whole, remove_markdown_warp gives
\* B with the whitespace around it trimmed, whatever B holds.
C9_UnwrapsFencedBody ==
  pc # "idle" =>
    \A lead \in Pads, trail \in Pads :
      LET head == lead \o Fence \o language \o NL
          tail == NL \o Fence \o trail
          n == Len(text) - Len(head) - Len(tail)
          B == SubSeq(text, Len(head) + 1, Len(head) + n)
      IN  (n >= 0 /\ text = head \o B \o tail) => once = Strip(B)

\* A body that is itself a fence, inside a ```markdown fence with whitespace
\* around it, comes out untouched.
C9_Witness ==
  /\ pc = "cleaned"
  /\ language = Markdown
  /\ text = SP \o Fence \o Markdown \o NL \o Fence \o NL \o Fence \o BlankLine
  /\ once = Fence

\* ---------------------------------------------------------------------- C10
\* The number of fences in t, counted from the left without overlap.
RECURSIVE FenceCount(_)
FenceCount(t) ==
  IF Len(t) < Len(Fence) THEN 0
  ELSE IF StartsWith(t, Fence) THEN 1 + FenceCount(DropFirst(t, Len(Fence)))
  ELSE FenceCount(Tail(t))

\* A fence inside a fenced block: more fences than one opening and one closing.
NestedFences(t) == FenceCount(t) >= 3

\* C10 as stated: for any text without nested fences, applying
\* remove_markdown_warp twice gives what applying it once gives.
C10_IdempotentUnlessNested ==
  (pc = "cleaned twice" /\ ~NestedFences(text)) => twice = once

\* The trimmed text opens with two ```language fences, or closes with two ```
\* fences, with nothing but whitespace between the two.
DoubleOpen(t, L) ==
  /\ StartsWith(t, Fence \o L)
  /\ StartsWith(LStrip(DropFirst(t, Len(Fence \o L))), Fence \o L)
DoubleClose(t) ==
  /\ EndsWith(t, Fence)
  /\ EndsWith(RStrip(DropLast(t, Len(Fence))), Fence)

\* C10 amended: applying remove_markdown_warp twice gives what applying it once
\* gives for any text that, trimmed, neither opens with two ```language fences
\* in a row nor closes with two ``` fences in a row.
C10_IdempotentUnlessDoubled ==
  (pc = "cleaned twice" /\ ~DoubleOpen(Strip(text), language)
     /\ ~DoubleClose(Strip(text))) =>
    twice = once

\* A fenced body was cleaned, and the second application changed nothing.
C10_Witness ==
  /\ pc = "cleaned twice"
  /\ language = Markdown
  /\ text = Fence \o Markdown \o NL \o <<97>> \o NL \o Fence
  /\ once = <<97>>
  /\ twice = <<97>>

\* ---------------------------------------------------------------------- C13
\* The first n bytes of data, or all of them when there are fewer.
Leading(data, n) == SubSeq(data, 1, Min(n, Len(data)))

\* The type the leading bytes stand for.
Classified(data) ==
  CASE Leading(data, 5) = <<37, 80, 68, 70, 45>> -> ".pdf"
    [] Leading(data, 4) = <<255, 216, 255, 219>> -> ".jpeg"
    [] Leading(data, 4) = <<255, 216, 255, 224>> -> ".jpg"
    [] Leading(data, 4) = <<137, 80, 78, 71>> -> ".png"
    [] Leading(data, 2) = <<66, 77>> -> ".bmp"
    [] OTHER -> "unsupported"

MainCall == entry = "main"
Sniffed == MainCall /\ pc \notin {"read", "sniff"} /\ input_data # <<>>

\* C13: main.py takes the type of its input from the leading bytes alone; the
\* extension it derives makes create_worker build a PDFWorker for a PDF and an
\* ImageWorker for an image, and with any other content or extension no worker
\* is built and an unsupported-format error ends the call.
C13_ClassifiesByLeadingBytes ==
  /\ Sniffed =>
       IF Classified(input_data) = "unsupported"
         THEN /\ outcome = Exit(1, "Unsupported file type")
              /\ worker = NoWorker
         ELSE /\ ext = Classified(input_data)
              /\ worker # NoWorker =>
                   worker.kind = IF ext = ".pdf" THEN "pdf" ELSE "image"
  /\ (ext \notin {"", ".pdf", ".jpg", ".jpeg", ".png", ".bmp"}
        /\ "input" \in tmp_files /\ pc \in {"finally", "done"}) =>
       /\ worker = NoWorker
       /\ pending = Wrapped(Raised("ValueError"))

\* Standard input began with FF D8 FF E0 and an ImageWorker was built for
\* input.jpg.
C13_Witness ==
  /\ MainCall
  /\ input_data = <<255, 216, 255, 224, 0>>
  /\ ext = ".jpg"
  /\ worker.kind = "image"

\* ---------------------------------------------------------------------- C14
\* C14: main.py leaves with exit(1), an error logged and no model request made,
\* when standard input is empty or of no supported type; when the run gets to
\* its end it has printed the assembled Markdown and leaves with exit(0).
C14_ExitStatus ==
  (MainCall /\ pc = "done") =>
    /\ (input_data = <<>> \/ Classified(input_data) = "unsupported") =>
         /\ outcome.kind = "exit(1)"
         /\ outcome.msg # ""
         /\ total_calls = 0
         /\ stdout = <<>>
    /\ outcome.kind = "exit(0)" =>
         /\ i > img_paths
         /\ stdout = markdown_content \o NL
    /\ tmp_dir = "removed" => outcome = Exit(0, "")

\* A run that printed a page's text and left with exit(0).
C14_Witness ==
  /\ MainCall
  /\ pc = "done"
  /\ outcome = Exit(0, "")
  /\ Len(stdout) > 1

\* ---------------------------------------------------------------------- C15
\* The texts that were taken into the document, in the order taken.
RECURSIVE TextsOf(_)
TextsOf(rs) ==
  IF rs = <<>> THEN <<>>
  ELSE IF Head(rs).text = <<>> THEN TextsOf(Tail(rs))
  ELSE <<Head(rs).text>> \o TextsOf(Tail(rs))

\* C15: the document an orchestrator emits (the return value of
\* convert_pdf_to_markdown, what main.py prints) is the texts of the successful
\* pages with one blank line between each two, and no whitespace before or
\* after; the newline print ends its output with is not counted.
C15_JoinedByOneBlankLine ==
  /\ (ConvertDone /\ outcome.kind = "return") =>
       outcome.doc = Join(TextsOf(results), BlankLine)
  /\ (MainCall /\ pc = "done" /\ outcome.kind = "exit(0)") =>
       stdout = Join(TextsOf(results), BlankLine) \o NL

\* ---------------------------------------------------------------------- C16
\* The first line of t: what stands before the first newline.
RECURSIVE FirstLine(_)
FirstLine(t) ==
  IF t = <<>> \/ Head(t) = 10 THEN <<>> ELSE <<Head(t)>> \o FirstLine(Tail(t))

\* C16: remove_markdown_warp takes a leading fence off only when the first line
\* of the trimmed text is the fence with exactly the declared tag; a first line
\* with a longer or another tag keeps all of its characters; the closing fence
\* is taken off or not whatever happened to the leading one.
C16_OnlyTheDeclaredFenceLine ==
  pc # "idle" =>
    LET t == Strip(text)
        a == IF RStrip(FirstLine(t)) = Fence \o language
               THEN DropFirst(t, Len(Fence \o language)) ELSE t
        b == IF EndsWith(a, Fence) THEN DropLast(a, Len(Fence)) ELSE a
    IN  once = Strip(b)

\* ---------------------------------------------------------------------- C17
\* C17: when the normalized range (s, e) is not the whole document and the
\* extraction succeeds, the worker's document is the original pages s .. e,
\* each once and in ascending order; convert_to_images returns e - s + 1 images
\* and the k-th of them shows page s + k - 1 of the original.
C17_RastersTheSelection ==
  LET r == normalize(start_page, end_page, total_pages)
  IN  (/\ worker.kind = "pdf"
       /\ 1 <= r.start /\ r.start <= r.end /\ r.end <= total_pages
       /\ ~(r.start = 1 /\ r.end = total_pages)
       /\ worker.extraction = "done") =>
        /\ worker.pages = [k \in 1 .. (r.end - r.start + 1) |-> r.start + k - 2]
        /\ img_paths > 0 =>
             /\ img_paths = r.end - r.start + 1
             /\ \A k \in 1 .. img_paths :
                  SourcePage(worker, k) + 1 = r.start + k - 1

\* Pages 2 .. 4 of a longer document were extracted and came back as three
\* images.
C17_Witness ==
  /\ worker.extraction = "done"
  /\ start_page = 2
  /\ end_page = 4
  /\ total_pages > 4
  /\ img_paths = 3
  /\ SourcePage(worker, 3) = 3

\* ---------------------------------------------------------------------- C18
\* The whole document is asked for, after the corrections of __init__.
WholeDocument ==
  LET v == validated(total_pages, start_page, end_page)
  IN  v.start = 1 /\ v.end = total_pages

\* C18: when a part of the document is asked for and extract_pages fails,
\* PDFWorker raises nothing, records the failure and rasterizes the original
\* document with all its pages; the original is used without a recorded
\* failure only when the whole document is asked for.
C18_FallsBackToTheOriginal ==
  worker.kind = "pdf" =>
    /\ outcome = Nothing
    /\ worker.extraction = "failed" =>
         /\ ~WholeDocument
         /\ worker.input_path = "original"
         /\ img_paths > 0 => img_paths = total_pages
    /\ worker.extraction = "done" =>
         /\ ~WholeDocument
         /\ worker.input_path = "extracted"
    /\ worker.extraction = "not needed" =>
         /\ WholeDocument
         /\ worker.input_path = "original"

\* The extraction of pages 2 .. 3 failed and every page of the original was
\* rasterized.
C18_Witness ==
  /\ worker.extraction = "failed"
  /\ start_page = 2
  /\ end_page = 3
  /\ total_pages > 3
  /\ img_paths = total_pages

\* ---------------------------------------------------------------------- C19
\* C19: PDFWorker.convert_to_images raises nothing and returns either an image
\* for every page of its document or, after any failure, the empty list, also
\* when pages were saved before the failure.
C19_AllImagesOrNone ==
  (entry = "create_worker" /\ pc = "done" /\ worker.kind = "pdf") =>
    /\ outcome = Nothing
    /\ img_paths \in {0, DocLen(worker, total_pages)}

\* A page failed after others had been saved, and the empty list came back.
C19_Witness ==
  /\ entry = "create_worker"
  /\ pc = "done"
  /\ "images" \in tmp_files
  /\ img_paths = 0

\* ---------------------------------------------------------------------- C20
Orchestrated == entry \in {"convert_pdf_to_markdown", "main"}

C21_BoundedCallsAndTermination ==
  /\ [](ConvertCall /\ img_paths >= 1 /\ i >= 1 =>
          /\ total_calls <= img_paths * retry_times
          /\ total_calls <= (i - 1) * retry_times
                              + (IF pc = "attempt" THEN attempt ELSE 0)
          /\ pc = "attempt" => attempt = calls.n \/ attempt = 0)
  /\ (ConvertCall /\ img_paths >= 1) ~>
       (ConvertDone /\ outcome.kind \in {"return", "ProcessingError"})

\* Every request of every page failed: N x R requests were made and the call
\* raised.
C21_Witness ==
  /\ ConvertDone
  /\ img_paths >= 2
  /\ total_calls = img_paths * retry_times
  /\ outcome.kind = "ProcessingError"

\* ---------------------------------------------------------------------- C11
InLines == Split(text, NL)
OutLines == Split(once, NL)
InParagraphs == Split(text, BlankLine)
OutParagraphs == Split(once, BlankLine)

\* The places of seq that hold x, compared case-insensitively.
Places(x, seq) == {k \in DOMAIN seq : lower(seq[k]) = lower(x)}
FirstPlace(x, seq) == CHOOSE k \in Places(x, seq) : \A j \in Places(x, seq) : k <= j

\* Of every entry of in that is not blank and occurs more than once, out holds
\* exactly one occurrence, the first one of in, and these stand in out in the
\* order they stand in in.
KeepsFirstOccurrences(in, out) ==
  LET repeated == {k \in DOMAIN in :
                     /\ Strip(in[k]) # <<>>
                     /\ Cardinality(Places(in[k], in)) > 1
                     /\ k = FirstPlace(in[k], in)}
  IN  /\ \A k \in repeated :
           /\ Cardinality(Places(in[k], out)) = 1
           /\ out[FirstPlace(in[k], out)] = in[k]
      /\ \A k \in repeated, j \in repeated :
           (k < j /\ Places(in[k], out) # {} /\ Places(in[j], out) # {}) =>
             FirstPlace(in[k], out) < FirstPlace(in[j], out)

\* C11: of every line and every paragraph that occurs more than once, compared
\* case-insensitively, _clean_ollama_output keeps exactly the first occurrence,
\* and what is kept stands in the order of the input.
C11_KeepsFirstOccurrence ==
  pc = "deduplicated" =>
    /\ KeepsFirstOccurrences(InLines, OutLines)
    /\ KeepsFirstOccurrences(InParagraphs, OutParagraphs)

\* ---------------------------------------------------------------------- C12
\* No two entries of seq are the same, compared case-insensitively.
NoRepeat(seq) == \A k \in DOMAIN seq : Places(seq[k], seq) = {k}

\* C12: every line of the input that is not blank and repeats no earlier line
\* stands in the output character for character, and an input in which no line
\* and no paragraph repeats is returned unchanged.
C12_LeavesTheRestAlone ==
  pc = "deduplicated" =>
    /\ \A k \in DOMAIN InLines :
         (Strip(InLines[k]) # <<>> /\ k = FirstPlace(InLines[k], InLines)) =>
           \E j \in DOMAIN OutLines : OutLines[j] = InLines[k]
    /\ (NoRepeat(InLines) /\ NoRepeat(InParagraphs)) => once = text

\* ---------------------------------------------------------------------- C22
\* C22: in every transcription routine (_convert_image_to_markdown of both
\* processors and completion of main.py) a model request that follows an
\* earlier attempt for the same page is made only after a backoff wait: the
\* sleep has run since the request before it.
C22_BackoffBetweenAttempts ==
  [][(/\ pc \in {"attempt", "page"}
      /\ attempt > 0
      /\ total_calls' = total_calls + 1) => slept]_vars

\* ---------------------------------------------------------------------- C23
\* C23: completion of main.py makes at most retry_times requests for a page,
\* and treats an empty response like a transport failure: it leaves a page
\* whose last request raised or answered with nothing only when all
\* retry_times requests have been made.
C23_RetriesOnEmptyAndFailure ==
  MainCall =>
    /\ calls.n <= retry_times
    /\ (/\ calls.last \in {"raise", "empty"}
        /\ (pc # "page" \/ calls.page # CurrentPage)) => calls.n = retry_times

\* ---------------------------------------------------------------------- C24
\* C24: in main.py no page's failure is fatal: once requests have been made, a
\* run ends only with every page visited, each one contributing its text or
\* nothing, the collected text on standard output, and exit(0); this whether
\* the requests raised, answered with an empty string or with no content.
C24_PageFailureNotFatal ==
  (MainCall /\ api_key /\ total_calls >= 1 /\ pc = "done") =>
    /\ outcome = Exit(0, "")
    /\ i = img_paths + 1
    /\ Len(results) = img_paths
    /\ stdout = markdown_content \o NL

\* ---------------------------------------------------------------------- C25
\* C25: main.py releases its working directory on every exit path: a run that
\* has created the directory does not end with the directory still there.
C25_WorkDirReleased ==
  (MainCall /\ pc = "done" /\ tmp_dir # "none") => tmp_dir = "removed"

\* ---------------------------------------------------------------------- C26
\* C26: every model request, from whichever entry point and whatever the
\* caller passes, carries a temperature within [0.0, 0.3].
C26_LowTemperature ==
  total_calls >= 1 => (0 <= sent_temperature /\ sent_temperature <= 3)

\* ---------------------------------------------------------------------- C27
\* C27: main.py does not finish as a success with nothing to show: a run that
\* leaves with exit(0) had at least one rasterized page and at least one page
\* text, and so printed a document that is not empty.
C27_NoEmptySuccess ==
  (MainCall /\ pc = "done" /\ outcome.kind = "exit(0)") =>
    /\ img_paths >= 1
    /\ markdown_content # <<>>
    /\ stdout # NL

\* ---------------------------------------------------------------------- C28
\* C28: whatever integers start_page and end_page are, a negative end_page
\* included, the pages extract_pages copies into the extracted document are
\* pages 0 .. T-1 of the original, in strictly ascending order, none repeated.
C28_CopiesAscendingPages ==
  (entry = "create_worker" /\ worker.kind = "pdf"
     /\ worker.extraction = "done") =>
    /\ \A k \in DOMAIN worker.pages : worker.pages[k] \in 0 .. total_pages - 1
    /\ \A k \in DOMAIN worker.pages :
         k < Len(worker.pages) => worker.pages[k] < worker.pages[k + 1]

\* ---------------------------------------------------------------------- C29
\* C29: PdfToMarkdownProcessor(...) raises ProcessingError only when the
\* provider is "openai" and the key is empty, or when the client library could
\* not create the client; for "openai" with a key and for "ollama" with any
\* key the object is constructed, an empty Ollama key replaced by "ollama".
C29_ConstructsOrKeyRequired ==
  (entry = "__init__" /\ processor = "PdfToMarkdownProcessor" /\ pc = "done") =>
    /\ outcome.kind \in {"return", "ProcessingError"}
    /\ outcome.kind = "ProcessingError" =>
         \/ lower(provider) = OpenAI /\ api_key = <<>>
         \/ outcome.msg = "Failed to initialize LLM client: openai"
    /\ outcome.kind = "return" =>
         /\ self.llm_client = "created"
         /\ self.api_key = IF api_key = <<>> THEN Ollama ELSE api_key

\* ---------------------------------------------------------------------- C30
\* C30: for every extension of get_supported_formats, convert_pdf_to_markdown
\* gets as far as transcribing: for an image input, once the worker has been
\* asked for its images the call holds exactly the one input image.
C30_SupportedFormatsAreTranscribed ==
  (ConvertCall /\ ext \in get_supported_formats /\ worker.kind = "image"
     /\ pc \notin {"create_worker", "convert"}) =>
    img_paths = 1

====
